---------------------------- MODULE Spec2Model ----------------------------
(***************************************************************************)
(* DeFiWallet: the P2P network component (src/src/network/mod.rs), the     *)
(* application state it shares (src/src/core/mod.rs) and the example       *)
(* program that drives it (src/examples/p2p_network.rs).                   *)
(*                                                                         *)
(* A node is one Network value: the swarm with its Floodsub and Mdns       *)
(* behaviours, the bounded command channel and the run loop.  The code of  *)
(* the handlers is translated from the source.  What the behaviours do     *)
(* inside libp2p (the partial view, the record of seen messages, the       *)
(* discovery records, publish as the origin of a message) is not code of   *)
(* src/: it is modelled from spec.md sections 3 and 4.3-4.5.               *)
(***************************************************************************)
EXTENDS Integers, Sequences, FiniteSets, TLC

(***************************************************************************)
(* NetworkMessage and its wire form (serde_json).                          *)
(***************************************************************************)

\* String field values the model draws from.
Strs == {"0x123...", "0x456..."}

\* f64 field values: three finite ones and the non-finite ones of the type.
F64Finite == {"0.0", "0.1", "1.5"}

F64NonFinite == {"NaN", "inf"}

F64 == F64Finite \cup F64NonFinite

is_finite(x) == x \in F64Finite

\* Longest peers list of a PeerDiscovery the model draws.
MaxPeersLen == 2

StrLists == UNION {[1..k -> Strs] : k \in 0..MaxPeersLen}

WalletUpdate(address, balance) ==
    [variant |-> "WalletUpdate", address |-> address, balance |-> balance]

Transaction(from, to, amount, chain_type) ==
    [variant |-> "Transaction", from |-> from, to |-> to,
     amount |-> amount, chain_type |-> chain_type]

PeerDiscovery(peers) == [variant |-> "PeerDiscovery", peers |-> peers]

ChainTypes == {"Ethereum"}

NetworkMessage ==
    {WalletUpdate(a, b) : a \in Strs, b \in F64}
    \cup {Transaction(f, t, x, c) : f \in Strs, t \in Strs, x \in F64, c \in ChainTypes}
    \cup {PeerDiscovery(p) : p \in StrLists}

\* The f64 fields of a message.
F64Fields(m) ==
    CASE m.variant = "WalletUpdate" -> {m.balance}
      [] m.variant = "Transaction" -> {m.amount}
      [] OTHER -> {}

\* JSON text as a sequence of tokens.
Punct(c) == [k |-> "punct", v |-> c]

JStr(s) == [k |-> "str", v |-> s]

JNum(x) == [k |-> "num", v |-> x]

JNull == [k |-> "null", v |-> ""]

\* serde_json writes a finite f64 as a number and NaN or an infinity as null.
serialize_f64(x) == IF is_finite(x) THEN JNum(x) ELSE JNull

RECURSIVE serialize_seq(_)
serialize_seq(s) ==
    IF Len(s) = 0 THEN <<>>
    ELSE IF Len(s) = 1 THEN <<JStr(s[1])>>
    ELSE <<JStr(s[1]), Punct(",")>> \o serialize_seq(Tail(s))

\* Serialize with the recipient written from the sender's field.
Serialize_swapped(m) ==
    <<Punct("{"), JStr(m.variant), Punct(":"), Punct("{")>> \o
    (CASE m.variant = "WalletUpdate" ->
            <<JStr("address"), Punct(":"), JStr(m.address), Punct(","),
              JStr("balance"), Punct(":"), serialize_f64(m.balance)>>
       [] m.variant = "Transaction" ->
            <<JStr("from"), Punct(":"), JStr(m.from), Punct(","),
              JStr("to"), Punct(":"), JStr(m.from), Punct(","),
              JStr("amount"), Punct(":"), serialize_f64(m.amount), Punct(","),
              JStr("chain_type"), Punct(":"), JStr(m.chain_type)>>
       [] OTHER ->
            <<JStr("peers"), Punct(":"), Punct("[")>> \o serialize_seq(m.peers)
            \o <<Punct("]")>>) \o
    <<Punct("}"), Punct("}")>>

\* #[derive(Serialize)] on the enum: externally tagged, {"Variant":{fields}}.
Serialize(m) ==
    <<Punct("{"), JStr(m.variant), Punct(":"), Punct("{")>> \o
    (CASE m.variant = "WalletUpdate" ->
            <<JStr("address"), Punct(":"), JStr(m.address), Punct(","),
              JStr("balance"), Punct(":"), serialize_f64(m.balance)>>
       [] m.variant = "Transaction" ->
            <<JStr("from"), Punct(":"), JStr(m.from), Punct(","),
              JStr("to"), Punct(":"), JStr(m.to), Punct(","),
              JStr("amount"), Punct(":"), serialize_f64(m.amount), Punct(","),
              JStr("chain_type"), Punct(":"), JStr(m.chain_type)>>
       [] OTHER ->
            <<JStr("peers"), Punct(":"), Punct("[")>> \o serialize_seq(m.peers)
            \o <<Punct("]")>>) \o
    <<Punct("}"), Punct("}")>>

\* The value a failed parse carries (never read).
NoMessage == [variant |-> "None"]

DecodeErr == [ok |-> FALSE, value |-> NoMessage]

DecodeOk(m) == [ok |-> TRUE, value |-> m]

IsKey(t, name) == t = JStr(name)

\* Elements of a JSON array of strings, tokens between "[" and "]":
\* [ok, value] with value the strings.
RECURSIVE deserialize_seq(_)
deserialize_seq(toks) ==
    IF Len(toks) = 0 THEN [ok |-> TRUE, value |-> <<>>]
    ELSE IF toks[1].k # "str" THEN [ok |-> FALSE, value |-> <<>>]
    ELSE IF Len(toks) = 1 THEN [ok |-> TRUE, value |-> <<toks[1].v>>]
    ELSE IF toks[2] # Punct(",") \/ Len(toks) = 2 THEN [ok |-> FALSE, value |-> <<>>]
    ELSE LET rest == deserialize_seq(SubSeq(toks, 3, Len(toks)))
         IN  [ok |-> rest.ok, value |-> <<toks[1].v>> \o rest.value]

\* The fields of one variant, the tokens between the inner braces.
deserialize_fields(variant, f) ==
    CASE variant = "WalletUpdate" ->
            IF /\ Len(f) = 7
               /\ IsKey(f[1], "address") /\ f[2] = Punct(":") /\ f[3].k = "str"
               /\ f[4] = Punct(",")
               /\ IsKey(f[5], "balance") /\ f[6] = Punct(":") /\ f[7].k = "num"
            THEN DecodeOk(WalletUpdate(f[3].v, f[7].v))
            ELSE DecodeErr
      [] variant = "Transaction" ->
            IF /\ Len(f) = 15
               /\ IsKey(f[1], "from") /\ f[2] = Punct(":") /\ f[3].k = "str"
               /\ f[4] = Punct(",")
               /\ IsKey(f[5], "to") /\ f[6] = Punct(":") /\ f[7].k = "str"
               /\ f[8] = Punct(",")
               /\ IsKey(f[9], "amount") /\ f[10] = Punct(":") /\ f[11].k = "num"
               /\ f[12] = Punct(",")
               /\ IsKey(f[13], "chain_type") /\ f[14] = Punct(":") /\ f[15].k = "str"
            THEN DecodeOk(Transaction(f[3].v, f[7].v, f[11].v, f[15].v))
            ELSE DecodeErr
      [] variant = "PeerDiscovery" ->
            IF /\ Len(f) >= 4
               /\ IsKey(f[1], "peers") /\ f[2] = Punct(":") /\ f[3] = Punct("[")
               /\ f[Len(f)] = Punct("]")
            THEN LET l == deserialize_seq(SubSeq(f, 4, Len(f) - 1))
                 IN  IF l.ok THEN DecodeOk(PeerDiscovery(l.value)) ELSE DecodeErr
            ELSE DecodeErr
      [] OTHER -> DecodeErr

\* serde_json::from_slice::<NetworkMessage>: Ok(message) or Err.
from_slice(data) ==
    LET n == Len(data)
    IN  IF /\ n >= 6
           /\ data[1] = Punct("{") /\ data[2].k = "str" /\ data[3] = Punct(":")
           /\ data[4] = Punct("{") /\ data[n - 1] = Punct("}") /\ data[n] = Punct("}")
        THEN deserialize_fields(data[2].v, SubSeq(data, 5, n - 2))
        ELSE DecodeErr

(***************************************************************************)
(* Peers, topics, messages.                                                *)
(***************************************************************************)

\* Nodes running Network::run: the two nodes of the scenarios of spec.md
\* section 8.
Nodes == {"A", "B"}

\* A Floodsub peer outside the nodes, the origin of published messages.
Remote == "R"

Peers == Nodes \cup {Remote}

WalletTopic == "wallet-updates"

Topics == {WalletTopic}

\* Addresses one peer may be advertised under by mDNS.
Addrs == {"a1", "a2"}

\* The messages main builds (examples/p2p_network.rs).
ExampleUpdate == WalletUpdate("0x123...", "1.5")

ExampleTransaction == Transaction("0x123...", "0x456...", "0.1", "Ethereum")

\* A frame cut short in transit.
Truncate(data) == SubSeq(data, 1, Len(data) - 1)

\* The payloads frames carry: a valid one and a malformed one.
Payloads == {Serialize(ExampleUpdate), Truncate(Serialize(ExampleUpdate))}

Messages == [origin : {Remote}, topic : Topics, data : Payloads]

\* The identifier SeenCache records: payload and origin.
MsgId(m) == <<m.origin, m.data>>

Ids == {MsgId(m) : m \in Messages}

Decodable(id) == from_slice(id[2]).ok

\* Publishes of the remote peer, SeenCache expiries and pending commands the
\* model explores.
MaxPublish == 2

MaxExpire == 1

MaxQueued == 1

\* NetworkConfig.max_peers as the configuration file sets it; the test of
\* core requires it to be positive.
max_peers == 1

\* mpsc::channel(100)
CommandQueueCapacity == 100

CommandKinds == {"Floodsub", "Mdns"}

VARIABLES
    pc,           \* position of Network::run: "new", "loop", "failed", "aborted"
    mainPc,       \* position of the example's main
    broadcasts,   \* what each broadcast step of main returned to its caller
    subscribed,   \* Floodsub: the local interest set
    partialView,  \* Floodsub: topic -> peers to flood to
    mdnsNodes,    \* Mdns: the (peer, address) records it holds
    lastMdns,     \* the last MdnsEvent the node handled
    connected,    \* Transport: peers with a live connection
    liveSince,    \* peers that had a live connection since their last Discovered
    seenCache,    \* Floodsub: identifiers of messages already received
    inbox,        \* frames sent to the node and not yet read
    queue,        \* the command channel (event_sender -> event_receiver)
    injected,     \* kinds of command handed to the behaviours
    appState,     \* App.state
    events,       \* FloodsubEvent::Message events handled, in order
    discarded,    \* frames Floodsub discarded as duplicates, per identifier
    expiries,     \* SeenCache expiries, per identifier
    published,    \* publishes of the remote peer, per identifier
    codec,        \* one message through serialize and deserialize
    listeners,    \* Swarm: listeners added by listen_on
    subscribeCalls, \* calls of Floodsub::subscribe, per topic
    services,     \* main.rs: the run() future of each service
    mainRs,       \* main.rs: position of main
    stateLock,    \* App.state: the RwLock's holders
    walletsLock,  \* WalletService.wallets: the RwLock's holders
    wallets,      \* WalletService.wallets: the Vec<Wallet>
    task,         \* tasks calling the WalletService of node A's App
    iterations    \* run: times select! completed a branch, modulo 2

mainVars == <<mainPc, broadcasts>>

discoveryVars == <<mdnsNodes, lastMdns>>

connectionVars == <<connected, liveSince>>

floodVars == <<seenCache, inbox, events, discarded, expiries, published>>

queueVars == <<queue, injected>>

\* Create-wallet calls the model explores.
MaxWallets == 2

\* Calls of Floodsub::subscribe per node and topic, that of Network::new
\* included.
MaxSubscribe == 2

\* What the nodes' networks hold.
networkVarsOfNodes == <<pc, mainVars, subscribed, partialView, discoveryVars,
                        connectionVars, floodVars, queueVars, appState>>

serviceVars == <<subscribeCalls, services, mainRs, stateLock, walletsLock,
                 wallets, task>>

vars == <<pc, mainVars, subscribed, partialView, discoveryVars, connectionVars,
          floodVars, queueVars, appState, codec, listeners, serviceVars,
          iterations>>

\* The services main.rs starts beside the network.
Services == {"wallet", "blockchain", "defi"}

\* Tasks that call the WalletService.
Tasks == {"t1", "t2"}

\* A tokio RwLock nobody holds.
LockFree == [writer |-> "none", readers |-> {}]

TaskIdle == [pc |-> "idle", op |-> "none", chain |-> "none", wallet |-> <<>>,
             address |-> <<>>, result |-> <<>>]

\* core::App::new, WalletService::new and the other services' new: no wallet,
\* nobody holds a lock, no run() future polled yet.
InitServices ==
    /\ services = [c \in Services |-> "created"]
    /\ mainRs = "select"
    /\ stateLock = [n \in Nodes |-> LockFree]
    /\ walletsLock = LockFree
    /\ wallets = <<>>
    /\ task = [t \in Tasks |-> TaskIdle]

\* AppState::default()
AppStateDefault ==
    [connected_peers |-> 0, active_wallets |-> 0, pending_transactions |-> 0]

ZeroCount == [i \in Ids |-> 0]

NoMdnsEvent == [kind |-> "None", list |-> {}]

CodecIdle ==
    [phase |-> "idle", message |-> NoMessage, bytes |-> <<>>,
     truncated |-> FALSE, decoded |-> DecodeErr, routed |-> <<>>]

\* The Floodsub behaviour as Floodsub::new leaves it.
FloodsubNew ==
    [subscribed |-> {}, view |-> [t \in Topics |-> {}], cache |-> {}]

\* subscribe that starts the topic afresh on every call.
subscribe_fresh(fs, topic) ==
    [fs EXCEPT !.subscribed = @ \cup {topic}, !.view[topic] = {}]

\* PubSub subscribe: a topic already in the interest set changes nothing; a new
\* one joins the interest set with an empty view.
subscribe(fs, topic) ==
    IF topic \in fs.subscribed
    THEN fs
    ELSE [fs EXCEPT !.subscribed = @ \cup {topic}, !.view[topic] = {}]

\* Network::new: the node subscribes to "wallet-updates" and creates the channel.
InitNetwork ==
    /\ pc = [n \in Nodes |-> "new"]
    /\ mainPc = [n \in Nodes |-> "start"]
    /\ broadcasts = [n \in Nodes |-> <<>>]
    /\ subscribed =
          [n \in Nodes |-> subscribe(FloodsubNew, WalletTopic).subscribed]
    /\ partialView =
          [n \in Nodes |-> subscribe(FloodsubNew, WalletTopic).view]
    /\ mdnsNodes = [n \in Nodes |-> {}]
    /\ lastMdns = [n \in Nodes |-> NoMdnsEvent]
    /\ connected = [n \in Nodes |-> {}]
    /\ liveSince = [n \in Nodes |-> {}]
    /\ seenCache = [n \in Nodes |-> {}]
    /\ inbox = [n \in Nodes |-> <<>>]
    /\ queue = [n \in Nodes |-> <<>>]
    /\ injected = [n \in Nodes |-> {}]
    /\ appState = [n \in Nodes |-> AppStateDefault]
    /\ events = [n \in Nodes |-> <<>>]
    /\ discarded = [n \in Nodes |-> ZeroCount]
    /\ expiries = [n \in Nodes |-> ZeroCount]
    /\ published = ZeroCount
    /\ listeners = [n \in Nodes |-> 0]
    /\ subscribeCalls = [n \in Nodes |-> [t \in Topics |-> 1]]
    /\ iterations = [n \in Nodes |-> 0]
    /\ InitServices

Init == InitNetwork /\ codec = CodecIdle

\* FloodsubEvent::Message events node n handled for identifier id, and the
\* calls of handle_network_message they made.
Delivered(n, id) == Cardinality({k \in DOMAIN events[n] : events[n][k].id = id})

RECURSIVE Calls(_, _)
Calls(log, id) ==
    IF log = <<>> THEN 0
    ELSE (IF Head(log).id = id THEN Head(log).calls ELSE 0) + Calls(Tail(log), id)

Dispatched(n, id) == Calls(events[n], id)

(***************************************************************************)
(* App (src/src/core/mod.rs).                                              *)
(***************************************************************************)

\* update_state that runs the closure before it takes the lock and again
\* under it.
update_state_twice(state, f) ==
    CASE f = "noop" -> state
      [] f = "active_wallets += 1" ->
            [state EXCEPT !.active_wallets = @ + 2]

\* update_state(f): f runs on the state under the write lock.
update_state(state, f) ==
    CASE f = "noop" -> state
      [] f = "active_wallets += 1" ->
            [state EXCEPT !.active_wallets = @ + 1]

(***************************************************************************)
(* Floodsub and Mdns, as spec.md sections 3, 4.3-4.5 describe them.        *)
(***************************************************************************)

\* Membership: the peer joins the view of every subscribed topic.
add_node_to_partial_view(view, subs, p) ==
    [t \in Topics |-> IF t \in subs THEN view[t] \cup {p} ELSE view[t]]

\* Membership: the peer leaves every topic's view.
remove_node_from_partial_view(view, p) ==
    [t \in Topics |-> view[t] \ {p}]

\* Discovery still holds a record of the peer.
has_node(records, p) == \E r \in records : r[1] = p

\* on_receive without the SeenCache lookup.
on_receive_unchecked(cache, view, frame) ==
    [cache |-> cache \cup {MsgId(frame.msg)}, surfaced |-> TRUE,
     forward |-> view[frame.msg.topic] \ {frame.from}]

\* on_receive that re-floods to the whole view, the sender included.
on_receive_echo(cache, view, frame) ==
    IF MsgId(frame.msg) \in cache
    THEN [cache |-> cache, surfaced |-> FALSE, forward |-> {}]
    ELSE [cache |-> cache \cup {MsgId(frame.msg)}, surfaced |-> TRUE,
          forward |-> view[frame.msg.topic]]

\* PubSub on_receive: a frame whose identifier is in SeenCache is discarded;
\* any other is recorded, surfaced and re-flooded to the topic's peers except
\* the sender.
on_receive(cache, view, frame) ==
    IF MsgId(frame.msg) \in cache
    THEN [cache |-> cache, surfaced |-> FALSE, forward |-> {}]
    ELSE [cache |-> cache \cup {MsgId(frame.msg)}, surfaced |-> TRUE,
          forward |-> view[frame.msg.topic] \ {frame.from}]

\* PubSub publish: the message goes to every peer of the topic's view.
publish(view, m) == view[m.topic]

\* Frames from `from` appended to the inbox of every node of `targets`.
Send(boxes, from, targets, m) ==
    [n \in Nodes |->
        IF n \in targets THEN Append(boxes[n], [from |-> from, msg |-> m])
        ELSE boxes[n]]

(***************************************************************************)
(* Network (src/src/network/mod.rs): the handlers.  Each takes the node's   *)
(* state st = [app, view, subs, mdns] and gives the state after it, its     *)
(* Result and the messages it passed to handle_network_message.            *)
(***************************************************************************)

Handled(st, result, calls) ==
    [app |-> st.app, view |-> st.view, result |-> result, calls |-> calls,
     collab |-> <<>>]

\* A call a handler makes on a collaborator, with the message fields it passes.
CollabCall(to, args) == [to |-> to, args |-> args]

\* The WalletUpdate arm calls app.update_state with a closure that captures
\* nothing and changes nothing; the other two arms are empty.
handle_network_message(st, message) ==
    CASE message.variant = "WalletUpdate" ->
            [Handled(st, "Ok", <<message>>) EXCEPT
                !.app = update_state(st.app, "noop"),
                !.collab = <<CollabCall("wallet-state", <<>>)>>]
      [] message.variant = "Transaction" -> Handled(st, "Ok", <<message>>)
      [] message.variant = "PeerDiscovery" -> Handled(st, "Ok", <<message>>)

\* handle_floodsub_event with the Message arm left out.
handle_floodsub_event_silent(st, event) == Handled(st, "Ok", <<>>)

\* handle_floodsub_event with the decode error propagated by `?`.
handle_floodsub_event_strict(st, event) ==
    IF event.kind = "Message"
    THEN LET decoded == from_slice(event.data)
         IN  IF decoded.ok
             THEN handle_network_message(st, decoded.value)
             ELSE Handled(st, "Err", <<>>)
    ELSE Handled(st, "Ok", <<>>)

handle_floodsub_event(st, event) ==
    IF event.kind = "Message"
    THEN LET decoded == from_slice(event.data)
         IN  IF decoded.ok
             THEN handle_network_message(st, decoded.value)
             ELSE Handled(st, "Ok", <<>>)
    ELSE Handled(st, "Ok", <<>>)

\* The Discovered loop started one record late.
DiscoveredLoop_skip_first(view, subs, list) ==
    IF list = {} THEN view
    ELSE LET r == CHOOSE x \in list : TRUE
         IN  IF list = {r} THEN view
             ELSE add_node_to_partial_view(
                      view, subs, (CHOOSE x \in list \ {r} : TRUE)[1])

RECURSIVE DiscoveredLoop(_, _, _)
DiscoveredLoop(view, subs, list) ==
    IF list = {} THEN view
    ELSE LET r == CHOOSE x \in list : TRUE
         IN  DiscoveredLoop(add_node_to_partial_view(view, subs, r[1]), subs,
                            list \ {r})

\* The Expired loop with the has_node test inverted.
RECURSIVE ExpiredLoop_inverted(_, _, _)
ExpiredLoop_inverted(view, mdns, list) ==
    IF list = {} THEN view
    ELSE LET r == CHOOSE x \in list : TRUE
         IN  ExpiredLoop_inverted(IF has_node(mdns, r[1])
                                  THEN remove_node_from_partial_view(view, r[1])
                                  ELSE view,
                                  mdns, list \ {r})

\* The Expired loop without the has_node test.
RECURSIVE ExpiredLoop_unguarded(_, _, _)
ExpiredLoop_unguarded(view, mdns, list) ==
    IF list = {} THEN view
    ELSE LET r == CHOOSE x \in list : TRUE
         IN  ExpiredLoop_unguarded(remove_node_from_partial_view(view, r[1]),
                                   mdns, list \ {r})

RECURSIVE ExpiredLoop(_, _, _)
ExpiredLoop(view, mdns, list) ==
    IF list = {} THEN view
    ELSE LET r == CHOOSE x \in list : TRUE
         IN  ExpiredLoop(IF ~has_node(mdns, r[1])
                         THEN remove_node_from_partial_view(view, r[1])
                         ELSE view,
                         mdns, list \ {r})

handle_mdns_event(st, event) ==
    IF event.kind = "Discovered"
    THEN [Handled(st, "Ok", <<>>) EXCEPT
            !.view = DiscoveredLoop(st.view, st.subs, event.list)]
    ELSE [Handled(st, "Ok", <<>>) EXCEPT
            !.view = ExpiredLoop(st.view, st.mdns, event.list)]

\* handle_swarm_event with an error for the events it does not match.
handle_swarm_event_strict(st, event) ==
    CASE event.behaviour = "Floodsub" -> handle_floodsub_event(st, event)
      [] event.behaviour = "Mdns" -> handle_mdns_event(st, event)
      [] OTHER -> Handled(st, "Err", <<>>)

handle_swarm_event(st, event) ==
    CASE event.behaviour = "Floodsub" -> handle_floodsub_event(st, event)
      [] event.behaviour = "Mdns" -> handle_mdns_event(st, event)
      [] OTHER -> Handled(st, "Ok", <<>>)

\* handle_network_event that starts every view afresh when a command comes.
handle_network_event_evicting(st, event) ==
    [Handled(st, "Ok", <<>>) EXCEPT !.view = [t \in Topics |-> {}]]

handle_network_event(st, event) == Handled(st, "Ok", <<>>)

\* The node's state as the handlers read it.
NodeState(n) ==
    [app |-> appState[n], view |-> partialView[n], subs |-> subscribed[n],
     mdns |-> mdnsNodes[n]]

\* The handler called app.update_state, which awaits state.write().
AwaitsState(r) == r.collab # <<>>

\* run after a handler returned: `?` leaves the loop with the error.
AfterHandler(n, r) ==
    /\ partialView' = [partialView EXCEPT ![n] = r.view]
    /\ appState' = [appState EXCEPT ![n] = r.app]
    /\ pc' = [pc EXCEPT ![n] = IF r.result = "Ok" THEN "loop" ELSE "failed"]

(***************************************************************************)
(* The example's main (src/examples/p2p_network.rs).                       *)
(***************************************************************************)

\* The two broadcast steps of main: the call is commented out, so nothing is
\* sent and the caller holds no status.
broadcast(view, queued, message) == [sent |-> {}, status |-> "none"]

BroadcastStep(n, from, to, message) ==
    /\ mainPc[n] = from
    /\ LET r == broadcast(partialView[n], queue[n], message)
       IN  /\ broadcasts' = [broadcasts EXCEPT ![n] = Append(@,
                   [message |-> message.variant, status |-> r.status,
                    sent |-> r.sent,
                    noRecipients |-> partialView[n][WalletTopic] = {},
                    queueFull |-> Len(queue[n]) >= CommandQueueCapacity])]
           /\ inbox' = Send(inbox, n, r.sent,
                            [origin |-> n, topic |-> WalletTopic,
                             data |-> Serialize(message)])
    /\ mainPc' = [mainPc EXCEPT ![n] = to]
    /\ UNCHANGED <<pc, subscribed, partialView, discoveryVars, connectionVars,
                   seenCache, events, discarded, expiries, published,
                   queueVars, appState, codec, iterations,
                   listeners, serviceVars>>

\* tokio::spawn(network.run()): the listen address is parsed and bound, then
\* the loop starts; either may fail, and run returns the error.
Spawn(n) ==
    /\ mainPc[n] = "start"
    /\ mainPc' = [mainPc EXCEPT ![n] = "spawned"]
    /\ \E bound \in BOOLEAN :
          /\ pc' = [pc EXCEPT ![n] = IF bound THEN "loop" ELSE "failed"]
          /\ listeners' = [listeners EXCEPT ![n] = IF bound THEN @ + 1 ELSE @]
    /\ UNCHANGED <<broadcasts, subscribed, partialView, discoveryVars,
                   connectionVars, floodVars, queueVars, appState, codec, iterations,
                   serviceVars>>

\* Network::run is called again on a Network whose previous run has ended
\* (returned its error, or its future was dropped): it parses and binds the
\* listen address again, with nothing that remembers an earlier listen_on.
\* Whether the bind succeeds is the transport's and the address's business
\* (a port of 0 always binds a fresh port).
RunAgain(n) ==
    /\ pc[n] \in {"aborted", "failed"}
    /\ \E bound \in BOOLEAN :
          /\ pc' = [pc EXCEPT ![n] = IF bound THEN "loop" ELSE "failed"]
          /\ listeners' = [listeners EXCEPT ![n] = IF bound THEN @ + 1 ELSE @]
    /\ UNCHANGED <<mainVars, subscribed, partialView, discoveryVars,
                   connectionVars, floodVars, queueVars, appState, codec, iterations,
                   serviceVars>>

BroadcastWalletUpdate(n) ==
    BroadcastStep(n, "spawned", "update_sent", ExampleUpdate)

BroadcastTransaction(n) ==
    BroadcastStep(n, "update_sent", "transaction_sent", ExampleTransaction)

\* network_handle.abort(): the task is cancelled at its next await.
Abort(n) ==
    /\ mainPc[n] = "transaction_sent"
    /\ mainPc' = [mainPc EXCEPT ![n] = "done"]
    /\ pc' = [pc EXCEPT ![n] = IF @ \in {"loop", "update_state"}
                                THEN "aborted" ELSE @]
    /\ UNCHANGED <<broadcasts, subscribed, partialView, discoveryVars,
                   connectionVars, floodVars, queueVars, appState, codec, iterations,
                   listeners, serviceVars>>

(***************************************************************************)
(* WalletService (src/src/wallet/mod.rs) of node A's App.                  *)
(***************************************************************************)

\* tokio::sync::RwLock: read() is granted while no writer holds the lock,
\* write() while nobody holds it.
CanRead(lock) == lock.writer = "none"

CanWrite(lock) == lock.writer = "none" /\ lock.readers = {}

\* wallet::ChainType
WalletChainTypes == {"Ethereum", "Solana", "Bitcoin"}

\* ed25519 keypairs Keypair::generate may return: 32 bytes each half.
Keypairs ==
    {[public |-> [i \in 1..32 |-> IF i = 1 THEN 0 ELSE (7 * i) % 256],
      secret |-> [i \in 1..32 |-> (3 * i + 1) % 256]],
     [public |-> [i \in 1..32 |-> (255 - 5 * i) % 256],
      secret |-> [i \in 1..32 |-> (11 * i) % 256]]}

HexDigits ==
    <<"0", "1", "2", "3", "4", "5", "6", "7", "8", "9",
      "a", "b", "c", "d", "e", "f">>

\* hex::encode
RECURSIVE hex_encode(_)
hex_encode(bytes) ==
    IF bytes = <<>> THEN <<>>
    ELSE <<HexDigits[(Head(bytes) \div 16) + 1], HexDigits[(Head(bytes) % 16) + 1]>>
         \o hex_encode(Tail(bytes))

Bs58Alphabet ==
    <<"1", "2", "3", "4", "5", "6", "7", "8", "9",
      "A", "B", "C", "D", "E", "F", "G", "H", "J", "K", "L", "M", "N", "P", "Q",
      "R", "S", "T", "U", "V", "W", "X", "Y", "Z",
      "a", "b", "c", "d", "e", "f", "g", "h", "i", "j", "k", "m", "n", "o", "p",
      "q", "r", "s", "t", "u", "v", "w", "x", "y", "z">>

\* One long division of a big-endian byte string by 58: quotient and remainder.
RECURSIVE DivMod58(_, _, _)
DivMod58(bytes, quotient, rem) ==
    IF bytes = <<>> THEN [q |-> quotient, r |-> rem]
    ELSE LET x == rem * 256 + Head(bytes)
         IN  DivMod58(Tail(bytes), Append(quotient, x \div 58), x % 58)

RECURSIVE StripZeros(_)
StripZeros(bytes) ==
    IF bytes # <<>> /\ Head(bytes) = 0 THEN StripZeros(Tail(bytes)) ELSE bytes

RECURSIVE LeadingZeros(_)
LeadingZeros(bytes) ==
    IF bytes # <<>> /\ Head(bytes) = 0 THEN 1 + LeadingZeros(Tail(bytes)) ELSE 0

\* The base-58 digits of a byte string without leading zeros, most
\* significant first.
RECURSIVE Bs58Digits(_, _)
Bs58Digits(bytes, digits) ==
    IF bytes = <<>> THEN digits
    ELSE LET d == DivMod58(bytes, <<>>, 0)
         IN  Bs58Digits(StripZeros(d.q), <<Bs58Alphabet[d.r + 1]>> \o digits)

\* bs58::encode(..).into_string(): a "1" per leading zero byte, then the digits.
bs58_encode(bytes) ==
    [i \in 1..LeadingZeros(bytes) |-> "1"] \o Bs58Digits(StripZeros(bytes), <<>>)

\* generate_address with no address for the chains it has no encoding for.
generate_address_unsupported(public_key, chain_type) ==
    CASE chain_type = "Ethereum" ->
            <<"0", "x">> \o hex_encode(SubSeq(public_key, 1, 20))
      [] chain_type = "Solana" -> bs58_encode(public_key)
      [] chain_type = "Bitcoin" -> <<>>

\* The address as the sequence of its characters.
generate_address(public_key, chain_type) ==
    CASE chain_type = "Ethereum" ->
            <<"0", "x">> \o hex_encode(SubSeq(public_key, 1, 20))
      [] chain_type = "Solana" -> bs58_encode(public_key)
      [] chain_type = "Bitcoin" -> <<"btc_address">>

\* The placeholder: the key bytes as they are, never an error.
encrypt_private_key(private_key, encryption_key) ==
    [ok |-> TRUE, value |-> private_key]

\* The Wallet create_wallet builds (lines 39-54).
NewWallet(keypair, chain_type) ==
    [address |-> generate_address(keypair.public, chain_type),
     public_key |-> keypair.public,
     encrypted_private_key |->
         encrypt_private_key(keypair.secret, "encryption_key").value,
     chain_type |-> chain_type,
     balance |-> "0.0"]

\* create_wallet calls in progress that have not pushed their wallet yet.
PendingCreates == {t \in Tasks : task[t].pc = "wallets.write"}

\* create_wallet up to wallets.write().await: the keypair is generated, the
\* configuration read and the wallet built.
CreateWalletBegin(t) ==
    /\ task[t].pc \in {"idle", "done"}
    /\ Len(wallets) + Cardinality(PendingCreates) < MaxWallets
    /\ \E chain_type \in WalletChainTypes, keypair \in Keypairs :
          task' = [task EXCEPT ![t] =
                      [pc |-> "wallets.write", op |-> "create_wallet",
                       chain |-> chain_type,
                       wallet |-> <<NewWallet(keypair, chain_type)>>,
                       address |-> <<>>, result |-> <<>>]]
    /\ UNCHANGED <<networkVarsOfNodes, codec, iterations, listeners, subscribeCalls,
                   services, mainRs, stateLock, walletsLock, wallets>>

\* wallets.write().await is granted and the wallet pushed; the guard lives to
\* the end of create_wallet.  update_state then waits for state.write().
CreateWalletPush(t) ==
    /\ task[t].pc = "wallets.write"
    /\ CanWrite(walletsLock)
    /\ walletsLock' = [walletsLock EXCEPT !.writer = t]
    /\ wallets' = Append(wallets, task[t].wallet[1])
    /\ task' = [task EXCEPT ![t].pc = "state.write"]
    /\ UNCHANGED <<networkVarsOfNodes, codec, iterations, listeners, subscribeCalls,
                   services, mainRs, stateLock>>

\* update_state: state.write().await is granted.
CreateWalletLockState(t) ==
    /\ task[t].pc = "state.write"
    /\ CanWrite(stateLock["A"])
    /\ stateLock' = [stateLock EXCEPT !["A"].writer = t]
    /\ task' = [task EXCEPT ![t].pc = "closure"]
    /\ UNCHANGED <<networkVarsOfNodes, codec, iterations, listeners, subscribeCalls,
                   services, mainRs, walletsLock, wallets>>

\* The closure runs, update_state drops the state guard, create_wallet
\* returns Ok(wallet) and drops the wallets guard.
CreateWalletReturn(t) ==
    /\ task[t].pc = "closure"
    /\ appState' = [appState EXCEPT
                       !["A"] = update_state(@, "active_wallets += 1")]
    /\ stateLock' = [stateLock EXCEPT !["A"].writer = "none"]
    /\ walletsLock' = [walletsLock EXCEPT !.writer = "none"]
    /\ task' = [task EXCEPT ![t].pc = "done", ![t].result = task[t].wallet]
    /\ UNCHANGED <<pc, mainVars, subscribed, partialView, discoveryVars,
                   connectionVars, floodVars, queueVars, codec, iterations, listeners,
                   subscribeCalls, services, mainRs, wallets>>

\* list_wallets: wallets.read().await is granted.
ListWalletsBegin(t) ==
    /\ task[t].pc \in {"idle", "done"}
    /\ CanRead(walletsLock)
    /\ walletsLock' = [walletsLock EXCEPT !.readers = @ \cup {t}]
    /\ task' = [task EXCEPT ![t] =
                    [TaskIdle EXCEPT !.pc = "wallets.read", !.op = "list_wallets"]]
    /\ UNCHANGED <<networkVarsOfNodes, codec, iterations, listeners, subscribeCalls,
                   services, mainRs, stateLock, wallets>>

\* list_wallets: the Vec is cloned and the read guard dropped.
ListWalletsReturn(t) ==
    /\ task[t].pc = "wallets.read"
    /\ walletsLock' = [walletsLock EXCEPT !.readers = @ \ {t}]
    /\ task' = [task EXCEPT ![t].pc = "done", ![t].result = wallets]
    /\ UNCHANGED <<networkVarsOfNodes, codec, iterations, listeners, subscribeCalls,
                   services, mainRs, stateLock, wallets>>

\* wallets.iter().find(|w| w.address == address).cloned(): the first wallet of
\* the list with that address, as an Option.
RECURSIVE find(_, _)
find(list, address) ==
    IF list = <<>> THEN <<>>
    ELSE IF Head(list).address = address THEN <<Head(list)>>
    ELSE find(Tail(list), address)

\* The addresses get_wallet is called with: those generate_address can give,
\* and one it never gives.
LookupAddresses ==
    {generate_address(k.public, c) : k \in Keypairs, c \in WalletChainTypes}
        \cup {<<"0", "x">>}

\* get_wallet: wallets.read().await is granted and the list searched.
GetWalletBegin(t, address) ==
    /\ task[t].pc \in {"idle", "done"}
    /\ CanRead(walletsLock)
    /\ walletsLock' = [walletsLock EXCEPT !.readers = @ \cup {t}]
    /\ task' = [task EXCEPT ![t] =
                    [TaskIdle EXCEPT !.pc = "found", !.op = "get_wallet",
                                     !.address = address,
                                     !.result = find(wallets, address)]]
    /\ UNCHANGED <<networkVarsOfNodes, codec, iterations, listeners,
                   subscribeCalls, services, mainRs, stateLock, wallets>>

\* get_wallet returns Ok(found) and the read guard is dropped.
GetWalletReturn(t) ==
    /\ task[t].pc = "found"
    /\ walletsLock' = [walletsLock EXCEPT !.readers = @ \ {t}]
    /\ task' = [task EXCEPT ![t].pc = "done"]
    /\ UNCHANGED <<networkVarsOfNodes, codec, iterations, listeners,
                   subscribeCalls, services, mainRs, stateLock, wallets>>

(***************************************************************************)
(* main (src/src/main.rs) on node A: one select! over the four run()       *)
(* futures.  A poll of select! polls the branches in some order until one  *)
(* is ready.                                                               *)
(***************************************************************************)

\* A branch of select! is ready: the other futures are dropped, main logs the
\* error and returns Ok(()), and the process exits.
SelectCompletes(network, ready) ==
    /\ mainRs' = "exited"
    /\ services' = [c \in Services |->
                       IF c \in ready THEN "returned"
                       ELSE IF services[c] = "created" THEN "dropped"
                       ELSE services[c]]
    /\ pc' = [pc EXCEPT !["A"] = IF network \in {"new", "loop", "update_state"}
                                  THEN "aborted" ELSE network]

\* select! polls network.run(): the listen address is parsed and bound and the
\* loop waits for its first event (pending), or run returns the error (ready).
MainPollNetwork ==
    /\ mainRs = "select"
    /\ pc["A"] = "new"
    /\ \E bound \in BOOLEAN :
          IF bound
          THEN /\ pc' = [pc EXCEPT !["A"] = "loop"]
               /\ listeners' = [listeners EXCEPT !["A"] = @ + 1]
               /\ UNCHANGED <<services, mainRs>>
          ELSE /\ SelectCompletes("failed", {})
               /\ UNCHANGED listeners
    /\ UNCHANGED <<mainVars, subscribed, partialView, discoveryVars,
                   connectionVars, floodVars, queueVars, appState, codec, iterations,
                   subscribeCalls, stateLock, walletsLock, wallets, task>>

\* select! polls the run() of a service: it returns Ok(()) at once.
MainPollService(c) ==
    /\ mainRs = "select"
    /\ services[c] = "created"
    /\ SelectCompletes(pc["A"], {c})
    /\ UNCHANGED <<mainVars, subscribed, partialView, discoveryVars,
                   connectionVars, floodVars, queueVars, appState, codec, iterations,
                   listeners, subscribeCalls, stateLock, walletsLock, wallets,
                   task>>

(***************************************************************************)
(* Network::run: one iteration of the loop per action.                     *)
(***************************************************************************)

\* run with every handler spawned off instead of awaited: the loop is back at
\* select! while a handler is still suspended.
AtSelect_detached(n) == pc[n] \in {"loop", "update_state"}

\* run is at select!: the handler of the item before was awaited in the
\* branch's block and has returned.
AtSelect(n) == pc[n] = "loop"

\* select! with `biased;`: the branches are polled in the order they are
\* written, so the swarm branch wins whenever it is ready.
select_biased(swarm_ready, command_ready) ==
    IF swarm_ready THEN {"swarm"}
    ELSE IF command_ready THEN {"command"} ELSE {}

\* tokio::select! over swarm.next() and event_receiver.recv(): the branches
\* are polled in an order drawn afresh on every poll, so any branch whose
\* future is ready may be the one that completes; with none ready it waits.
select(swarm_ready, command_ready) ==
    {b \in {"swarm", "command"} :
        \/ b = "swarm" /\ swarm_ready
        \/ b = "command" /\ command_ready}

\* select! completes one of its two branches with the item that branch's
\* future yielded, and the loop goes round once.
Iterated(n) == iterations' = [iterations EXCEPT ![n] = (@ + 1) % 2]

\* recv that hands out the first command and leaves it in the channel.
recv_peek(channel) == [item |-> Head(channel), rest |-> channel]

\* event_receiver.recv(): the oldest queued command leaves the channel.
recv(channel) == [item |-> Head(channel), rest |-> Tail(channel)]

\* swarm.next() yields FloodsubEvent::Message: Floodsub read a frame whose
\* identifier it had not seen.
FloodsubMessage(n) ==
    /\ AtSelect(n)
    /\ "swarm" \in select(TRUE, queue[n] # <<>>)
    /\ inbox[n] # <<>>
    /\ LET frame == Head(inbox[n])
           id == MsgId(frame.msg)
           rcv == on_receive(seenCache[n], partialView[n], frame)
           event == [behaviour |-> "Floodsub", kind |-> "Message",
                     data |-> frame.msg.data]
           r == handle_swarm_event(NodeState(n), event)
       IN  /\ rcv.surfaced
           /\ Iterated(n)
           /\ seenCache' = [seenCache EXCEPT ![n] = rcv.cache]
           /\ inbox' = Send([inbox EXCEPT ![n] = Tail(@)], n,
                            rcv.forward \cap Nodes, frame.msg)
           /\ IF frame.msg.topic \in subscribed[n]
              THEN /\ events' = [events EXCEPT ![n] =
                            Append(@, [id |-> id, calls |-> Len(r.calls),
                                       from |-> frame.from])]
                   /\ IF AwaitsState(r) /\ ~CanWrite(stateLock[n])
                      THEN /\ pc' = [pc EXCEPT ![n] = "update_state"]
                           /\ UNCHANGED <<appState, partialView>>
                      ELSE AfterHandler(n, r)
              ELSE UNCHANGED <<events, appState, partialView, pc>>
    /\ UNCHANGED <<mainVars, subscribed, discoveryVars, connectionVars,
                   discarded, expiries, published, queueVars, codec, listeners, serviceVars>>

\* The handler parked in update_state is granted state.write(): the closure
\* runs, the guard is dropped and the handler returns to the loop.
UpdateStateAcquired(n) ==
    /\ pc[n] = "update_state"
    /\ CanWrite(stateLock[n])
    /\ pc' = [pc EXCEPT ![n] = "loop"]
    /\ appState' = [appState EXCEPT ![n] = update_state(@, "noop")]
    /\ UNCHANGED <<mainVars, subscribed, partialView, discoveryVars,
                   connectionVars, floodVars, queueVars, codec, iterations, listeners,
                   serviceVars>>

\* Floodsub read a frame whose identifier is in SeenCache: no event.
FloodsubDuplicate(n) ==
    /\ pc[n] = "loop"
    /\ inbox[n] # <<>>
    /\ ~on_receive(seenCache[n], partialView[n], Head(inbox[n])).surfaced
    /\ inbox' = [inbox EXCEPT ![n] = Tail(@)]
    /\ discarded' = [discarded EXCEPT ![n][MsgId(Head(inbox[n]).msg)] = @ + 1]
    /\ UNCHANGED <<pc, mainVars, subscribed, partialView, discoveryVars,
                   connectionVars, seenCache, events, expiries, published,
                   queueVars, appState, codec, iterations,
                   listeners, serviceVars>>

PeersOf(list) == {r[1] : r \in list}

\* swarm.next() yields MdnsEvent::Discovered(list): the records Mdns has added,
\* of peers among `peers` at addresses among `addrs`.
MdnsDiscoveredOf(n, peers, addrs) ==
    /\ AtSelect(n)
    /\ "swarm" \in select(TRUE, queue[n] # <<>>)
    /\ \E list \in SUBSET ((peers \X addrs) \ mdnsNodes[n]) :
          /\ list # {}
          /\ LET mdns == mdnsNodes[n] \cup list
                 event == [behaviour |-> "Mdns", kind |-> "Discovered",
                           list |-> list]
             IN  /\ mdnsNodes' = [mdnsNodes EXCEPT ![n] = mdns]
                 /\ lastMdns' = [lastMdns EXCEPT ![n] =
                                    [kind |-> "Discovered", list |-> list]]
                 /\ liveSince' = [liveSince EXCEPT ![n] =
                                    (@ \ PeersOf(list)) \cup
                                    (PeersOf(list) \cap connected[n])]
                 /\ Iterated(n)
                 /\ AfterHandler(n, handle_swarm_event(
                        [NodeState(n) EXCEPT !.mdns = mdns], event))
    /\ UNCHANGED <<mainVars, subscribed, connected, floodVars, queueVars, codec, listeners, serviceVars>>

MdnsDiscoveredAt(n, addrs) == MdnsDiscoveredOf(n, Nodes \ {n}, addrs)

MdnsDiscovered(n) == MdnsDiscoveredAt(n, Addrs)

\* swarm.next() yields MdnsEvent::Expired(list): the records Mdns has dropped.
MdnsExpired(n) ==
    /\ AtSelect(n)
    /\ "swarm" \in select(TRUE, queue[n] # <<>>)
    /\ \E list \in SUBSET mdnsNodes[n] :
          /\ list # {}
          /\ LET mdns == mdnsNodes[n] \ list
                 event == [behaviour |-> "Mdns", kind |-> "Expired", list |-> list]
             IN  /\ mdnsNodes' = [mdnsNodes EXCEPT ![n] = mdns]
                 /\ lastMdns' = [lastMdns EXCEPT ![n] =
                                    [kind |-> "Expired", list |-> list]]
                 /\ Iterated(n)
                 /\ AfterHandler(n, handle_swarm_event(
                        [NodeState(n) EXCEPT !.mdns = mdns], event))
    /\ UNCHANGED <<mainVars, subscribed, connectionVars, floodVars, queueVars,
                   codec, listeners, serviceVars>>

\* swarm.next() yields a connection lifecycle event: the `_ => {}` arm.
ConnectionEvent(n, kind, p) ==
    /\ AtSelect(n)
    /\ "swarm" \in select(TRUE, queue[n] # <<>>)
    /\ Iterated(n)
    /\ AfterHandler(n, handle_swarm_event(NodeState(n),
            [behaviour |-> "Swarm", kind |-> kind, peer |-> p]))
    /\ UNCHANGED <<mainVars, subscribed, discoveryVars, floodVars, queueVars,
                   codec, listeners, serviceVars>>

ConnectionEstablished(n) ==
    \E p \in (Nodes \ {n}) \ connected[n] :
        /\ connected' = [connected EXCEPT ![n] = @ \cup {p}]
        /\ liveSince' = [liveSince EXCEPT ![n] = @ \cup {p}]
        /\ ConnectionEvent(n, "ConnectionEstablished", p)

ConnectionClosed(n) ==
    \E p \in connected[n] :
        /\ connected' = [connected EXCEPT ![n] = @ \ {p}]
        /\ UNCHANGED liveSince
        /\ ConnectionEvent(n, "ConnectionClosed", p)

\* event_receiver.recv() yields a queued command, the swarm having an event
\* ready at that moment or not.
CommandWhen(n, swarm_ready) ==
    /\ AtSelect(n)
    /\ "command" \in select(swarm_ready, queue[n] # <<>>)
    /\ Iterated(n)
    /\ LET received == recv(queue[n])
       IN  /\ AfterHandler(n, handle_network_event(NodeState(n),
                                                    received.item))
           /\ queue' = [queue EXCEPT ![n] = received.rest]
           /\ injected' = [injected EXCEPT ![n] = @ \cup {received.item}]
    /\ UNCHANGED <<mainVars, subscribed, discoveryVars, connectionVars,
                   floodVars, codec, listeners, serviceVars>>

Command(n) == \E swarm_ready \in BOOLEAN : CommandWhen(n, swarm_ready)

(***************************************************************************)
(* The environment.                                                        *)
(***************************************************************************)

\* A holder of event_sender sends a command; the channel takes it while it
\* holds fewer than its capacity.
EnqueueCommand(n, kind) ==
    /\ Len(queue[n]) < CommandQueueCapacity
    /\ queue' = [queue EXCEPT ![n] = Append(@, kind)]
    /\ UNCHANGED <<pc, mainVars, subscribed, partialView, discoveryVars,
                   connectionVars, floodVars, injected, appState, codec, iterations,
                   listeners, serviceVars>>

RECURSIVE Sum(_, _)
Sum(f, S) ==
    IF S = {} THEN 0
    ELSE LET x == CHOOSE y \in S : TRUE IN f[x] + Sum(f, S \ {x})

\* The remote peer, whose view of "wallet-updates" holds the nodes `targets`,
\* publishes a message.
RemotePublish(targets) ==
    /\ Sum(published, Ids) < MaxPublish
    /\ \E m \in Messages :
          /\ published' = [published EXCEPT ![MsgId(m)] = @ + 1]
          /\ inbox' = Send(inbox, Remote,
                           publish([t \in Topics |-> targets], m), m)
    /\ UNCHANGED <<pc, mainVars, subscribed, partialView, discoveryVars,
                   connectionVars, seenCache, events, discarded, expiries,
                   queueVars, appState, codec, iterations,
                   listeners, serviceVars>>

\* Floodsub::subscribe is called again on the behaviour of node n. run borrows
\* the Network for as long as it is polled, so the behaviour is at a caller's
\* disposal only once run has ended.
Subscribe(n, t) ==
    /\ pc[n] \in {"aborted", "failed"}
    /\ subscribeCalls[n][t] < MaxSubscribe
    /\ subscribeCalls' = [subscribeCalls EXCEPT ![n][t] = @ + 1]
    /\ LET fs == subscribe([subscribed |-> subscribed[n],
                            view |-> partialView[n],
                            cache |-> seenCache[n]], t)
       IN  /\ subscribed' = [subscribed EXCEPT ![n] = fs.subscribed]
           /\ partialView' = [partialView EXCEPT ![n] = fs.view]
           /\ seenCache' = [seenCache EXCEPT ![n] = fs.cache]
    /\ UNCHANGED <<pc, mainVars, discoveryVars, connectionVars, inbox, events,
                   discarded, expiries, published, queueVars, appState, codec, iterations,
                   listeners, services, mainRs, stateLock, walletsLock,
                   wallets, task>>

\* An entry of SeenCache reaches the end of its TTL window.
ExpireSeen(n) ==
    /\ Sum([m \in Nodes |-> Sum(expiries[m], Ids)], Nodes) < MaxExpire
    /\ \E id \in seenCache[n] :
          /\ seenCache' = [seenCache EXCEPT ![n] = @ \ {id}]
          /\ expiries' = [expiries EXCEPT ![n][id] = @ + 1]
    /\ UNCHANGED <<pc, mainVars, subscribed, partialView, discoveryVars,
                   connectionVars, inbox, events, discarded, published,
                   queueVars, appState, codec, iterations,
                   listeners, serviceVars>>

(***************************************************************************)
(* One message through serde_json and back.                                *)
(***************************************************************************)

networkVars == <<pc, mainVars, subscribed, partialView, discoveryVars,
                 connectionVars, floodVars, queueVars, appState, listeners,
                 serviceVars, iterations>>

InitCodec ==
    /\ InitNetwork
    /\ codec \in {[CodecIdle EXCEPT !.phase = "message", !.message = m] :
                    m \in NetworkMessage}

\* serde_json::to_vec(&message)
SerializeStep ==
    /\ codec.phase = "message"
    /\ codec' = [codec EXCEPT !.phase = "bytes", !.bytes = Serialize(codec.message)]
    /\ UNCHANGED networkVars

\* The frame loses its end in transit.
TruncateStep ==
    /\ codec.phase = "bytes"
    /\ ~codec.truncated
    /\ codec' = [codec EXCEPT !.bytes = Truncate(@), !.truncated = TRUE]
    /\ UNCHANGED networkVars

\* serde_json::from_slice::<NetworkMessage>(&message.data)
DeserializeStep ==
    /\ codec.phase = "bytes"
    /\ codec' = [codec EXCEPT !.phase = "decoded", !.decoded = from_slice(codec.bytes)]
    /\ UNCHANGED networkVars

\* self.handle_network_message(network_message) on what was decoded.
DispatchStep ==
    /\ codec.phase = "decoded"
    /\ codec.decoded.ok
    /\ codec' = [codec EXCEPT
                    !.phase = "dispatched",
                    !.routed = handle_network_message(NodeState("A"),
                                                      codec.decoded.value).collab]
    /\ UNCHANGED networkVars

NextCodec == SerializeStep \/ TruncateStep \/ DeserializeStep \/ DispatchStep

SpecCodec == InitCodec /\ [][NextCodec]_vars

(***************************************************************************)
(* Specifications.  Each explores the same nodes under one part of the     *)
(* environment; the rest of the environment is quiet.                      *)
(***************************************************************************)

\* Flooding: the remote peer publishes, the nodes discover one another (each
\* at one address: the views hold peers, not addresses), read frames and relay
\* them, SeenCache entries expire.
NextFlood ==
    \/ \E n \in Nodes :
          \/ Spawn(n)
          \/ MdnsDiscoveredAt(n, {"a1"})
          \/ FloodsubMessage(n)
          \/ FloodsubDuplicate(n)
          \/ ExpireSeen(n)
    \/ \E targets \in (SUBSET Nodes) \ {{}} : RemotePublish(targets)

SpecFlood == Init /\ [][NextFlood]_vars

\* Membership: discovery records come and go, connections open and close.
NextMembership ==
    \E n \in Nodes :
        \/ Spawn(n)
        \/ MdnsDiscovered(n)
        \/ MdnsExpired(n)
        \/ ConnectionEstablished(n)
        \/ ConnectionClosed(n)

SpecMembership == Init /\ [][NextMembership]_vars

\* The example program from start to abort, with discovery.
NextExample ==
    \E n \in Nodes :
        \/ Spawn(n)
        \/ BroadcastWalletUpdate(n)
        \/ BroadcastTransaction(n)
        \/ Abort(n)
        \/ MdnsDiscovered(n)
        \/ MdnsExpired(n)

SpecExample == Init /\ [][NextExample]_vars

\* Every event of the loop of node A: swarm events of each kind and queued
\* commands, up to MaxQueued of them pending.  The remote peer publishes each
\* message once, so every frame A reads reaches the loop as an event; B is
\* discovered at one address.
NextLoop ==
    \/ Spawn("A")
    \/ BroadcastWalletUpdate("A")
    \/ BroadcastTransaction("A")
    \/ Abort("A")
    \/ FloodsubMessage("A")
    \/ MdnsDiscoveredAt("A", {"a1"})
    \/ MdnsExpired("A")
    \/ ConnectionEstablished("A")
    \/ ConnectionClosed("A")
    \/ Command("A")
    \/ \E kind \in CommandKinds :
          Len(queue["A"]) < MaxQueued /\ EnqueueCommand("A", kind)
    \/ RemotePublish({"A"}) /\ \A id \in Ids : published'[id] <= 1

Spec == Init /\ [][NextLoop]_vars

\* The command channel of node A filled to its capacity.
NextQueue ==
    \/ Spawn("A")
    \/ BroadcastWalletUpdate("A")
    \/ BroadcastTransaction("A")
    \/ Abort("A")
    \/ Command("A")
    \/ EnqueueCommand("A", "Floodsub")

SpecQueue == Init /\ [][NextQueue]_vars

\* Node A runs main.rs while node B runs the example program on the same LAN.
NextMain ==
    \/ MainPollNetwork
    \/ \E c \in Services : MainPollService(c)
    \/ Spawn("B")
    \/ BroadcastWalletUpdate("B")
    \/ BroadcastTransaction("B")
    \/ Abort("B")
    \/ MdnsDiscovered("B")
    \/ MdnsExpired("B")

SpecMain == Init /\ [][NextMain]_vars

\* The views: every peer of the LAN, the remote one too, is discovered and
\* expires, each at one address.
NextView ==
    \E n \in Nodes :
        \/ Spawn(n)
        \/ MdnsDiscoveredOf(n, Peers \ {n}, {"a1"})
        \/ MdnsExpired(n)

SpecView == Init /\ [][NextView]_vars

\* Two tasks call the WalletService of node A's App while A's loop receives
\* the remote peer's messages, each published once.
NextWallet ==
    \/ \E t \in Tasks :
          \/ CreateWalletBegin(t)
          \/ CreateWalletPush(t)
          \/ CreateWalletLockState(t)
          \/ CreateWalletReturn(t)
          \/ ListWalletsBegin(t)
          \/ ListWalletsReturn(t)
    \/ Spawn("A")
    \/ RemotePublish({"A"}) /\ \A id \in Ids : published'[id] <= 1
    \/ FloodsubMessage("A")
    \/ UpdateStateAcquired("A")

SpecWallet == Init /\ [][NextWallet]_vars

(***************************************************************************)
(* Properties.                                                             *)
(***************************************************************************)

\* C1 as stated: a message published once is surfaced, and dispatched, at
\* most once at every node, whatever paths it arrives over.
C1_AtMostOnce ==
    \A n \in Nodes, id \in Ids :
        published[id] = 1 => Delivered(n, id) <= 1 /\ Dispatched(n, id) <= 1

\* C1, amended: a node surfaces a message at most once per stay of its
\* identifier in the node's SeenCache, that is at most once more than the
\* identifier has expired there, and dispatches it at most once per surfacing;
\* a duplicate that arrives while the identifier is recorded is discarded.
C1_AtMostOncePerRetention ==
    \A n \in Nodes, id \in Ids :
        /\ Delivered(n, id) <= 1 + expiries[n][id]
        /\ Dispatched(n, id) <= Delivered(n, id)

\* A message published once reached node B over two paths (from the remote
\* peer and relayed by A); B surfaced it once and discarded the other frame.
C1_Witness ==
    \E id \in Ids :
        /\ published[id] = 1
        /\ Delivered("B", id) = 1
        /\ Delivered("A", id) = 1
        /\ discarded["B"][id] = 1
        /\ expiries["B"][id] = 0

\* C2 as stated, for the example program: A took its broadcast step for the
\* WalletUpdate with B in its PartialView; by the end of A's main, with B running
\* and nothing left in flight, B has dispatched exactly one WalletUpdate from A.
C2_PublishedUpdateReceivedOnce ==
    (/\ mainPc["A"] = "done"
     /\ ~broadcasts["A"][1].noRecipients
     /\ pc["B"] = "loop"
     /\ inbox["B"] = <<>>)
    => Cardinality({k \in DOMAIN events["B"] :
                       /\ events["B"][k].id = <<"A", Serialize(ExampleUpdate)>>
                       /\ events["B"][k].calls = 1}) = 1

C4_ExpiredAbsent ==
    \A n \in Nodes, p \in Nodes :
        (/\ lastMdns[n].kind = "Expired"
         /\ p \in PeersOf(lastMdns[n].list)
         /\ p \notin liveSince[n])
        => \A t \in Topics : p \notin partialView[n][t]

\* C4, amended: such a peer is in no topic's PartialView provided Discovery
\* holds no other record of it (mdns.has_node is false) when Expired is handled.
C4_ExpiredAbsentWithoutRecord ==
    \A n \in Nodes, p \in Nodes :
        (/\ lastMdns[n].kind = "Expired"
         /\ p \in PeersOf(lastMdns[n].list)
         /\ p \notin liveSince[n]
         /\ ~has_node(mdnsNodes[n], p))
        => \A t \in Topics : p \notin partialView[n][t]

\* A peer's only record expired, it never had a live connection, and it has
\* left the view.
C4_Witness ==
    \E n \in Nodes, p \in Nodes :
        /\ lastMdns[n].kind = "Expired"
        /\ p \in PeersOf(lastMdns[n].list)
        /\ p \notin liveSince[n]
        /\ ~has_node(mdnsNodes[n], p)
        /\ p \notin partialView[n][WalletTopic]

\* MdnsEvent::Expired is handled at node n in this step.
ExpiredStep(n) == mdnsNodes'[n] # mdnsNodes[n] /\ mdnsNodes'[n] \subseteq mdnsNodes[n]

\* C5 as stated: handling Expired never removes from a PartialView a peer with
\* a live transport connection.
C5_ConnectedNotEvicted ==
    [][\A n \in Nodes, p \in Nodes, t \in Topics :
          (ExpiredStep(n) /\ p \in connected[n] /\ p \in partialView[n][t])
          => p \in partialView'[n][t]]_vars

\* C5, amended: handling Expired(p) does not remove p from any topic's
\* PartialView while Discovery still holds a record of p; the eviction is
\* conditioned on mdns.has_node(p) being false, and the Transport's
\* connections are not consulted.
C5_EvictedIffNoRecord ==
    [][\A n \in Nodes, p \in Nodes, t \in Topics :
          (/\ ExpiredStep(n)
           /\ p \in PeersOf(mdnsNodes[n] \ mdnsNodes'[n])
           /\ p \in partialView[n][t])
          => (p \in partialView'[n][t] <=> has_node(mdnsNodes'[n], p))]_vars

\* Expired reported a connected peer that Discovery still holds a record of,
\* and the peer stayed in the view.
C5_Witness ==
    \E n \in Nodes, p \in Nodes :
        /\ lastMdns[n].kind = "Expired"
        /\ p \in PeersOf(lastMdns[n].list)
        /\ has_node(mdnsNodes[n], p)
        /\ p \in connected[n]
        /\ p \in partialView[n][WalletTopic]

\* C6 as stated, for the example program: a broadcast step taken while the
\* topic's PartialView is empty gives its caller a no-recipients status and
\* sends to no peer.
C6_NoRecipientsStatus ==
    \A n \in Nodes :
        \A k \in DOMAIN broadcasts[n] :
            broadcasts[n][k].noRecipients =>
                /\ broadcasts[n][k].status = "NoRecipients"
                /\ broadcasts[n][k].sent = {}

HandledMessage(n) == Len(events'[n]) = Len(events[n]) + 1

LastEvent(n) == events'[n][Len(events'[n])]

\* C8: handling a frame that does not decode calls no handler, leaves the
\* application state as it was and the node in its loop; a frame that decodes
\* is dispatched, whatever was handled before it.
C8_MalformedDropped ==
    [][\A n \in Nodes :
          HandledMessage(n) =>
              IF Decodable(LastEvent(n).id)
              THEN LastEvent(n).calls = 1
              ELSE /\ LastEvent(n).calls = 0
                   /\ appState' = appState
                   /\ pc'[n] = "loop"]_vars

\* A node dropped a malformed frame and then dispatched a valid one.
C8_Witness ==
    \E n \in Nodes :
        /\ pc[n] = "loop"
        /\ Len(events[n]) = 2
        /\ ~Decodable(events[n][1].id) /\ events[n][1].calls = 0
        /\ Decodable(events[n][2].id) /\ events[n][2].calls = 1

\* C9: a node leaves the loop of run only when the owner of the task aborts it;
\* no swarm event and no queued command makes run return.
C9_LoopLeftOnlyByAbort ==
    [][\A n \in Nodes :
          (pc[n] = "loop" /\ pc'[n] # "loop")
          => (pc'[n] = "aborted" /\ mainPc[n] = "transaction_sent"
              /\ mainPc'[n] = "done")]_vars

\* Node A handled a pubsub delivery that decodes and one that does not,
\* discovery events, a connection event and commands of both kinds, and is
\* still in its loop.
C9_Witness ==
    /\ pc["A"] = "loop"
    /\ \E j, k \in DOMAIN events["A"] :
          events["A"][j].calls = 0 /\ events["A"][k].calls = 1
    /\ lastMdns["A"].kind = "Expired"
    /\ liveSince["A"] # {}
    /\ injected["A"] = CommandKinds

\* C10 as stated: the queue never holds more than its capacity, and a
\* broadcast step taken while the queue is full fails with "busy".
C10_BusyWhenFull ==
    \A n \in Nodes :
        /\ Len(queue[n]) <= CommandQueueCapacity
        /\ \A k \in DOMAIN broadcasts[n] :
              broadcasts[n][k].queueFull => broadcasts[n][k].status = "Busy"

\* C11 as stated, for main.rs: once the network's run has returned, no other
\* service's run() has been dropped by it and main has not exited.
C11_OthersKeepRunning ==
    pc["A"] = "failed" =>
        /\ mainRs # "exited"
        /\ \A c \in Services : services[c] # "dropped"

\* The collaborator call the dispatch contract names for a message.
ExpectedRoute(m) ==
    CASE m.variant = "WalletUpdate" ->
            CollabCall("wallet-state", <<m.address, m.balance>>)
      [] m.variant = "Transaction" ->
            CollabCall("blockchain-state", <<m.from, m.to, m.amount, m.chain_type>>)
      [] m.variant = "PeerDiscovery" ->
            CollabCall("membership", <<m.peers>>)

\* C12 as stated: dispatching a decoded message makes exactly the call its
\* variant names, on that variant's collaborator, with the message's fields.
C12_RoutedByVariant ==
    codec.phase = "dispatched"
    => codec.routed = <<ExpectedRoute(codec.decoded.value)>>

\* C13 as stated: while another task holds the application state, the loop
\* is never held inside a handler waiting for it; the handler completes and
\* the loop takes its next event.
C13_DispatchNeverWaits ==
    \A n \in Nodes :
        ~CanWrite(stateLock[n]) => pc[n] # "update_state"

\* MdnsEvent::Discovered is handled at node n in this step.
DiscoveredStep(n) == mdnsNodes'[n] # mdnsNodes[n] /\ mdnsNodes[n] \subseteq mdnsNodes'[n]

\* C14: after Discovered is handled, every peer the event reports is in the
\* PartialView of every topic the node is subscribed to.
C14_DiscoveredJoinsViews ==
    [][\A n \in Nodes, p \in Peers, t \in Topics :
          (/\ DiscoveredStep(n)
           /\ p \in PeersOf(mdnsNodes'[n] \ mdnsNodes[n])
           /\ t \in subscribed[n])
          => p \in partialView'[n][t]]_vars

\* One Discovered event reported two peers and both are flood targets of the
\* subscribed topic.
C14_Witness ==
    \E n \in Nodes :
        /\ lastMdns[n].kind = "Discovered"
        /\ Cardinality(PeersOf(lastMdns[n].list)) = 2
        /\ WalletTopic \in subscribed[n]
        /\ PeersOf(lastMdns[n].list) \subseteq partialView[n][WalletTopic]

\* C15 as stated: no topic's PartialView holds more than max_peers peers.
C15_ViewWithinMaxPeers ==
    \A n \in Nodes, t \in Topics : Cardinality(partialView[n][t]) <= max_peers

\* C16: when a node handles a frame whose identifier was not in its SeenCache,
\* the frame is appended to the inbox of every peer of the topic's PartialView
\* except the peer it came from, and to no other inbox; the sender gets
\* nothing back.
C16_RefloodExceptSender ==
    [][\A n \in Nodes :
          HandledMessage(n) =>
              LET frame == Head(inbox[n])
                  targets == partialView[n][frame.msg.topic] \ {frame.from}
              IN  \A p \in Nodes \ {n} :
                      inbox'[p] = IF p \in targets
                                  THEN Append(inbox[p],
                                              [from |-> n, msg |-> frame.msg])
                                  ELSE inbox[p]]_vars

\* B handled a frame from the remote peer and re-flooded it to A, so A was in
\* B's view; B then handled a frame that A had re-flooded to it, and A, which
\* has read everything sent to it, never got that frame back.
C16_Witness ==
    /\ Len(events["B"]) = 2
    /\ events["B"][1].from = Remote
    /\ events["B"][2].from = "A"
    /\ \E k \in DOMAIN events["A"] :
          events["A"][k].from = "B" /\ events["A"][k].id = events["B"][1].id
    /\ inbox["A"] = <<>>
    /\ discarded["A"][events["B"][2].id] = 0
    /\ \A id \in Ids : expiries["A"][id] = 0 /\ expiries["B"][id] = 0

\* Node A runs the example program, discovers B, handles the remote peer's
\* messages and is aborted; subscribe is then called again.
NextSubscribe ==
    \/ Spawn("A")
    \/ BroadcastWalletUpdate("A")
    \/ BroadcastTransaction("A")
    \/ Abort("A")
    \/ MdnsDiscoveredAt("A", {"a1"})
    \/ RemotePublish({"A"})
    \/ FloodsubMessage("A")
    \/ \E t \in Topics : Subscribe("A", t)

SpecSubscribe == Init /\ [][NextSubscribe]_vars

NextListen ==
    \E n \in Nodes :
        \/ Spawn(n)
        \/ BroadcastWalletUpdate(n)
        \/ BroadcastTransaction(n)
        \/ Abort(n)
        \/ RunAgain(n)
        \/ MdnsDiscoveredAt(n, {"a1"})

SpecListen == Init /\ [][NextListen]_vars

\* C18: a node never has more than one listener: a listen request made after
\* the listen address was bound adds no second listener.
C18_OneListener == \A n \in Nodes : listeners[n] <= 1

\* C19: no lock is held by a writer together with a reader (one writer at
\* most holds it), readers hold the wallets lock together, and the writer of
\* the wallets lock holds it only while it mutates the list: it is not still
\* holding it when, the push done, it waits in update_state for the state
\* lock.
C19_ReaderWriterDiscipline ==
    /\ \A lock \in {walletsLock, stateLock["A"]} :
          lock.writer # "none" => lock.readers = {}
    /\ \A t \in Tasks :
          task[t].pc = "wallets.read" => t \in walletsLock.readers
    /\ \A t \in Tasks :
          walletsLock.writer = t => task[t].pc # "state.write"

\* The WalletService alone: two tasks create and list wallets.
NextCreate ==
    \E t \in Tasks :
        \/ CreateWalletBegin(t)
        \/ CreateWalletPush(t)
        \/ CreateWalletLockState(t)
        \/ CreateWalletReturn(t)
        \/ ListWalletsBegin(t)
        \/ ListWalletsReturn(t)

SpecCreate == Init /\ [][NextCreate]_vars

\* C20: a create_wallet call that has returned holds a wallet of the chain
\* type it was called with, with a non-empty address and a balance of 0, and
\* that wallet is an element of the service's wallet list.
C20_CreateWalletResult ==
    \A t \in Tasks :
        (task[t].op = "create_wallet" /\ task[t].pc = "done") =>
            /\ Len(task[t].result) = 1
            /\ task[t].result[1].chain_type = task[t].chain
            /\ task[t].result[1].address # <<>>
            /\ task[t].result[1].balance = "0.0"
            /\ \E k \in DOMAIN wallets : wallets[k] = task[t].result[1]

\* Two calls have returned, one for Bitcoin and one for Solana, and the list
\* holds both wallets.
C20_Witness ==
    /\ \A t \in Tasks : task[t].op = "create_wallet" /\ task[t].pc = "done"
    /\ {task[t].chain : t \in Tasks} = {"Bitcoin", "Solana"}
    /\ Len(wallets) = 2
    /\ walletsLock = LockFree

\* The items the loop of node n takes in a step: a frame surfaced as a
\* Floodsub event, a discovery event, a connection event, a queued command.
ItemsTaken(n) ==
    {k \in {"frame", "mdns", "connection", "command"} :
        \/ k = "frame" /\ inbox[n] # <<>> /\ HandledMessage(n)
        \/ k = "mdns" /\ mdnsNodes'[n] # mdnsNodes[n]
        \/ k = "connection" /\ connected'[n] # connected[n]
        \/ k = "command" /\ queue[n] # <<>> /\ queue'[n] = Tail(queue[n])}

NextHandler ==
    \/ Spawn("A")
    \/ RemotePublish({"A"}) /\ \A id \in Ids : published'[id] <= 1
    \/ FloodsubMessage("A")
    \/ UpdateStateAcquired("A")
    \/ MdnsDiscoveredAt("A", {"a1"})
    \/ Command("A")
    \/ Len(queue["A"]) < MaxQueued /\ EnqueueCommand("A", "Floodsub")
    \/ CreateWalletBegin("t1") /\ task'["t1"].chain = "Bitcoin"
    \/ CreateWalletPush("t1")
    \/ CreateWalletLockState("t1")
    \/ CreateWalletReturn("t1")

SpecHandler == Init /\ [][NextHandler]_vars

\* C22: while a handler of node n has not returned (it is suspended in
\* update_state), the loop takes no further item and nothing changes the
\* node's PartialView or its interest set.
C22_HandlersDoNotInterleave ==
    [][\A n \in Nodes :
          pc[n] = "update_state" =>
              /\ ItemsTaken(n) = {}
              /\ iterations'[n] = iterations[n]
              /\ partialView'[n] = partialView[n]
              /\ subscribed'[n] = subscribed[n]]_vars

\* A handler is suspended in update_state while a frame and a command are
\* ready for the loop.
C22_Witness ==
    /\ pc["A"] = "update_state"
    /\ inbox["A"] # <<>>
    /\ queue["A"] # <<>>
    /\ mdnsNodes["A"] # {}

\* Node A runs the example program: it discovers B and loses it, receives
\* the remote peer's messages, handles commands, is aborted, and subscribe is
\* called again.
NextFrame ==
    \/ Spawn("A")
    \/ BroadcastWalletUpdate("A")
    \/ BroadcastTransaction("A")
    \/ Abort("A")
    \/ MdnsDiscoveredAt("A", {"a1"})
    \/ MdnsExpired("A")
    \/ RemotePublish({"A"}) /\ \A id \in Ids : published'[id] <= 1
    \/ FloodsubMessage("A")
    \/ Command("A")
    \/ \E kind \in CommandKinds :
          Len(queue["A"]) < MaxQueued /\ EnqueueCommand("A", kind)
    \/ \E t \in Topics : Subscribe("A", t)

SpecFrame == Init /\ [][NextFrame]_vars

\* C23: a step changes a node's PartialView only if it is the handling of a
\* Discovered or an Expired event (the discovery records change in it); and
\* handle_network_message gives back the view it was given, for every
\* NetworkMessage.
C23_ViewChangesOnlyOnDiscovery ==
    [][\A n \in Nodes :
          /\ partialView'[n] # partialView[n] =>
                 DiscoveredStep(n) \/ ExpiredStep(n)
          /\ \A m \in NetworkMessage :
                 handle_network_message(NodeState(n), m).view = partialView[n]]_vars

\* With B in its view, node A has received a message, handled a command and
\* gone through both broadcast steps, and subscribe was called again after the
\* abort.
C23_Witness ==
    /\ partialView["A"][WalletTopic] = {"B"}
    /\ lastMdns["A"].kind = "Discovered"
    /\ events["A"] # <<>>
    /\ injected["A"] # {}
    /\ mainPc["A"] = "done"
    /\ pc["A"] = "aborted"
    /\ subscribeCalls["A"][WalletTopic] = 2

\* C24: while the network's run is in its loop, main does not exit: no step
\* taken with the loop running ends main.
C24_MainOutlivesLoop ==
    [][pc["A"] \in {"loop", "update_state"} => mainRs' # "exited"]_vars

\* The loop of node A with a swarm event ready at every select!: discovery
\* records and connections come and go without end, frames arrive, and
\* commands are queued.  The loop is polled for as long as a branch is ready,
\* and the order in which select! polls its branches is drawn at random, so the
\* command branch, ready without interruption, completes in the end.
NextFair ==
    \/ Spawn("A")
    \/ MdnsDiscoveredAt("A", {"a1"})
    \/ MdnsExpired("A")
    \/ ConnectionEstablished("A")
    \/ ConnectionClosed("A")
    \/ RemotePublish({"A"}) /\ \A id \in Ids : published'[id] <= 1
    \/ FloodsubMessage("A")
    \/ CommandWhen("A", TRUE)
    \/ \E kind \in CommandKinds :
          Len(queue["A"]) < MaxQueued /\ EnqueueCommand("A", kind)

SpecFair ==
    Init /\ [][NextFair]_vars /\ WF_vars(CommandWhen("A", TRUE))

\* C25: no command waits for ever in the queue of a running loop, although a
\* swarm event is ready at every select!: either commands are handled again
\* and again (the queue is first-in first-out and bounded, so each queued
\* command is reached), or from some point on the queue of the running loop
\* stays empty.
C25_CommandEventuallyHandled ==
    \/ []<><<CommandWhen("A", TRUE)>>_vars
    \/ <>[](pc["A"] = "loop" => queue["A"] = <<>>)

\* Commands of both kinds were handled, the queue is drained, and the swarm
\* still has a frame and discovery records to report on.
C25_Witness ==
    /\ pc["A"] = "loop"
    /\ injected["A"] = CommandKinds
    /\ queue["A"] = <<>>
    /\ inbox["A"] # <<>>
    /\ mdnsNodes["A"] # {}

\* create_wallet calls that have started and not returned.
CreatesInProgress ==
    {t \in Tasks : task[t].op = "create_wallet" /\ task[t].pc # "done"}

\* C26: AppState.active_wallets never exceeds the length of the wallet list,
\* and the two are equal whenever no create_wallet call is in progress.
C26_ActiveWalletsMatchesList ==
    /\ appState["A"].active_wallets <= Len(wallets)
    /\ CreatesInProgress = {} => appState["A"].active_wallets = Len(wallets)

\* Both tasks have created a wallet, one call having waited for the other's
\* write lock, and the counter stands at two.
C26_Witness ==
    /\ \A t \in Tasks : task[t].op = "create_wallet" /\ task[t].pc = "done"
    /\ Len(wallets) = 2
    /\ appState["A"].active_wallets = 2
    /\ stateLock["A"] = LockFree

\* The public keys of the wallets created or being created.
KeysInUse ==
    {wallets[k].public_key : k \in DOMAIN wallets}
        \cup {task[t].wallet[1].public_key : t \in PendingCreates}

\* Two tasks create wallets, each with a keypair of its own as
\* Keypair::generate gives, look addresses up and list the wallets.
NextLookup ==
    \E t \in Tasks :
        \/ /\ CreateWalletBegin(t)
           /\ task'[t].wallet[1].public_key \notin KeysInUse
        \/ CreateWalletPush(t)
        \/ CreateWalletLockState(t)
        \/ CreateWalletReturn(t)
        \/ \E address \in LookupAddresses : GetWalletBegin(t, address)
        \/ GetWalletReturn(t)
        \/ ListWalletsBegin(t)
        \/ ListWalletsReturn(t)

SpecLookup == Init /\ [][NextLookup]_vars

\* C27: while a get_wallet call holds what it found, that is the very wallet
\* of the list that has the address asked for, whichever wallet of the list
\* that is, and nothing if no wallet has it; and the steps of get_wallet and
\* list_wallets leave the list as it is.
C27_GetWalletReturnsIt ==
    [][\A t \in Tasks :
          /\ (task[t].op = "get_wallet" /\ task[t].pc = "found") =>
                 /\ \A k \in DOMAIN wallets :
                        wallets[k].address = task[t].address =>
                            task[t].result = <<wallets[k]>>
                 /\ (\A k \in DOMAIN wallets :
                        wallets[k].address # task[t].address) =>
                            task[t].result = <<>>
          /\ (task[t].op \in {"get_wallet", "list_wallets"}
                 /\ task'[t] # task[t]) => wallets' = wallets]_vars

=============================================================================
